---- MODULE Spec2Model ----
(***************************************************************************)
(* Verification model of the prediction engine and the backtest simulator. *)
(*                                                                         *)
(*   src/src/utils/backtest.ts   backtest(): candle-by-candle replay       *)
(*   src/src/prediction.ts       the three strategies and their indicators *)
(*                                                                         *)
(* Conventions.  Candle indices are the code's (0-based); the TLA+         *)
(* sequence holding the candles is 1-based, so candles[i] of the code is   *)
(* candles[i + 1] here.  Prices are integers.  A JavaScript number that    *)
(* results from a division is a tagged value: Fin(n, d) (the rational n/d, *)
(* d > 0), Inf(s) (+/-Infinity) or NaN.  Confidences are fixed-point, in   *)
(* units of 1/ConfUnit.                                                    *)
(***************************************************************************)
EXTENDS Integers, Sequences, FiniteSets, TLC

VARIABLES
    \* ---- backtest(strategy, marketData, startIndex) ----
    candles,         \* marketData.candles
    pc,              \* position of backtest(): "start", "loop", "done", "error"
    i,               \* the loop variable of backtest.ts:36
    activePosition,  \* backtest.ts:24-33, Null when flat
    trades,          \* backtest.ts:22
    call,            \* the strategy.execute call made by the last iteration
    lookedAt,        \* indices of the candles the last iteration read
    result,          \* the BacktestResult returned (backtest.ts:210-221)
    \* ---- strategy.execute(data), called directly ----
    strategy,        \* the strategy executed: its id, "none" in a backtest run
    data,            \* the MarketData passed to execute
    clock,           \* the wall clock: index of the current instant
    runs,            \* the outcomes of the execute calls made so far
    \* ---- the objects behind marketData.candles ----
    memory           \* the candle objects and the arrays that refer to them

btVars == <<candles, pc, i, activePosition, trades, call, lookedAt, result>>
exVars == <<strategy, data, clock, runs>>
vars == <<candles, pc, i, activePosition, trades, call, lookedAt, result,
          strategy, data, clock, runs, memory>>

----------------------------------------------------------------------------
(* Bounds of the model *)

\* number of candles of the inputs that reach the holding limit
NumCandles == 13
\* number of candles after startIndex of the inputs that trade often
NumTradeBars == 7
\* the startIndex argument of backtest()
StartIndex == 1

(* Program constants *)

\* backtest.ts:130  i - activePosition.entry.index >= 10
MaxHoldingBars == 10
\* fixed-point unit of a confidence: 1.0 is ConfUnit
ConfUnit == 1000000
\* backtest.ts:161  prediction.prediction.confidence > 0.65
EntryThreshold == 650000

Null == [null |-> TRUE]

----------------------------------------------------------------------------
(* JavaScript numbers produced by a division *)

Fin(n, d) == [k |-> "fin", n |-> n, d |-> d]
Inf(s) == [k |-> "inf", s |-> s]
NaN == [k |-> "nan"]

\* a / b for integers a and b, as IEEE-754 division decides the special cases
JsDiv(a, b) ==
    IF b = 0
    THEN IF a = 0 THEN NaN ELSE Inf(IF a > 0 THEN 1 ELSE -1)
    ELSE IF b > 0 THEN Fin(a, b) ELSE Fin(-a, -b)

\* x > y for two JavaScript numbers; any comparison with NaN is false
JsGreater(x, y) ==
    IF x.k = "nan" \/ y.k = "nan" THEN FALSE
    ELSE IF x.k = "inf" THEN IF y.k = "inf" THEN x.s > y.s ELSE x.s > 0
    ELSE IF y.k = "inf" THEN y.s < 0
    ELSE IF x.d = y.d THEN x.n > y.n
    ELSE x.n * y.d > y.n * x.d

----------------------------------------------------------------------------
(* Input candles *)

Candle(t, o, h, l, c, v) ==
    [time |-> t, open |-> o, high |-> h, low |-> l, close |-> c, volume |-> v]

\* the candle shapes the inputs are built from: high, low, close
Shapes ==
    { [high |-> 101, low |-> 99, close |-> 100],    \* quiet
      [high |-> 103, low |-> 99, close |-> 102],    \* drifts up, hits nothing
      [high |-> 106, low |-> 99, close |-> 105],    \* reaches 105
      [high |-> 101, low |-> 94, close |-> 95],     \* reaches 95
      [high |-> 106, low |-> 94, close |-> 100] }   \* reaches 105 and 95

Quiet == [high |-> 101, low |-> 99, close |-> 100]

\* a candle that reaches 105
Rally == [high |-> 106, low |-> 99, close |-> 105]

\* a candle no market produces: its high lies below its low
Inconsistent == [high |-> 98, low |-> 102, close |-> 100]

\* candle times: unique, increasing, distinct from the index
TimeOf(k) == 1000 + 60 * k

\* n candles: `lead` quiet ones, then the shapes a, b, a, b, ...
Pattern(n, lead, a, b) ==
    [k \in 1..n |->
        LET s == IF k <= lead THEN Quiet
                 ELSE IF (k - lead) % 2 = 1 THEN a ELSE b
        IN Candle(TimeOf(k - 1), 100, s.high, s.low, s.close, 10)]

InputCandles ==
    { <<>>, Pattern(StartIndex, 0, Quiet, Quiet) }
    \cup { Pattern(StartIndex + NumTradeBars, StartIndex + 1, a, b) :
               a \in Shapes, b \in Shapes }
    \cup { Pattern(NumCandles, StartIndex + MaxHoldingBars, a, b) :
               a \in Shapes, b \in { Quiet, Rally } }
    \cup { Pattern(StartIndex + NumTradeBars, StartIndex + 1, Inconsistent, Quiet) }

----------------------------------------------------------------------------
(* The strategy handed to backtest(): any TradingStrategy.  execute()      *)
(* either throws or returns a PredictionResult.                            *)

Prediction(dir, conf, target, stop) ==
    [kind |-> "ok", direction |-> dir, confidence |-> conf,
     targetPrice |-> target, stopLoss |-> stop]

Throw == [kind |-> "throw"]

StrategyOutcomes ==
    { Throw,
      Prediction("neutral", 900000, 105, 95),
      Prediction("long", EntryThreshold, 105, 95),
      Prediction("long", 700000, 105, 95),
      Prediction("short", 700000, 95, 105) }

NoCall == [invoked |-> FALSE]

----------------------------------------------------------------------------
(* backtest(): the loop body *)

\* a slice that ignores its bounds: the strategy would see the whole input
SliceWhole(cs, from, to) == cs

\* candles.slice(from, to)
Slice(cs, from, to) ==
    LET hi == IF to > Len(cs) THEN Len(cs) ELSE to
    IN SubSeq(cs, from + 1, hi)

\* the exit checks with the stop tested before the target
ExitReasonStopFirst(pos, candle, idx) ==
    IF pos.entry.direction = "long"
    THEN IF candle.low <= pos.stopLoss THEN "stop"
         ELSE IF candle.high >= pos.targetPrice THEN "target"
         ELSE IF idx - pos.entry.index >= MaxHoldingBars THEN "signal"
         ELSE "none"
    ELSE IF candle.high >= pos.stopLoss THEN "stop"
         ELSE IF candle.low <= pos.targetPrice THEN "target"
         ELSE IF idx - pos.entry.index >= MaxHoldingBars THEN "signal"
         ELSE "none"

\* backtest.ts:44-153: which exit, if any, closes the position on this candle
ExitReason(pos, candle, idx) ==
    IF pos.entry.direction = "long"
    THEN IF candle.high >= pos.targetPrice THEN "target"
         ELSE IF candle.low <= pos.stopLoss THEN "stop"
         ELSE IF idx - pos.entry.index >= MaxHoldingBars THEN "signal"
         ELSE "none"
    ELSE IF candle.low <= pos.targetPrice THEN "target"
         ELSE IF candle.high >= pos.stopLoss THEN "stop"
         ELSE IF idx - pos.entry.index >= MaxHoldingBars THEN "signal"
         ELSE "none"

\* the Trade with the profit of a long, whatever the direction
ClosedTradeUndirected(pos, candle, reason) ==
    LET exitPrice == CASE reason = "target" -> pos.targetPrice
                       [] reason = "stop" -> pos.stopLoss
                       [] OTHER -> candle.close
        pnl == exitPrice - pos.entry.price
    IN [entry |-> [timestamp |-> pos.entry.timestamp,
                   price |-> pos.entry.price,
                   direction |-> pos.entry.direction],
        exit |-> [timestamp |-> candle.time, price |-> exitPrice,
                  reason |-> reason],
        profitLoss |-> pnl,
        profitLossPercent |-> JsDiv(pnl * 100, pos.entry.price)]

\* backtest.ts:50-63, 70-83, 90-103, 110-123, 131-150: the Trade pushed
ClosedTrade(pos, candle, reason) ==
    LET exitPrice == CASE reason = "target" -> pos.targetPrice
                       [] reason = "stop" -> pos.stopLoss
                       [] OTHER -> candle.close
        pnl == IF pos.entry.direction = "long"
               THEN exitPrice - pos.entry.price
               ELSE pos.entry.price - exitPrice
    IN [entry |-> [timestamp |-> pos.entry.timestamp,
                   price |-> pos.entry.price,
                   direction |-> pos.entry.direction],
        exit |-> [timestamp |-> candle.time, price |-> exitPrice,
                  reason |-> reason],
        profitLoss |-> pnl,
        profitLossPercent |-> JsDiv(pnl * 100, pos.entry.price)]

\* an entry step that does not look at the open position
MayEnterAlways(pos) == TRUE

\* backtest.ts:156  if (!activePosition)
MayEnter(pos) == pos = Null

\* an entry test that also accepts a confidence of exactly 0.65
IsEntrySignalInclusive(p) ==
    p.confidence >= EntryThreshold /\ p.direction # "neutral"

\* backtest.ts:161  confidence > 0.65 && direction !== 'neutral'
IsEntrySignal(p) ==
    p.confidence > EntryThreshold /\ p.direction # "neutral"

\* an entry step that records the index of the next candle
EntryStepNextIndex(outcome, candle, idx) ==
    IF outcome.kind = "throw" THEN Null
    ELSE IF IsEntrySignal(outcome)
    THEN [entry |-> [timestamp |-> candle.time, price |-> candle.close,
                     direction |-> outcome.direction, index |-> idx + 1],
          targetPrice |-> outcome.targetPrice,
          stopLoss |-> outcome.stopLoss]
    ELSE Null

\* backtest.ts:157-175: the position after the entry step
EntryStep(outcome, candle, idx) ==
    IF outcome.kind = "throw" THEN Null
    ELSE IF IsEntrySignal(outcome)
    THEN [entry |-> [timestamp |-> candle.time, price |-> candle.close,
                     direction |-> outcome.direction, index |-> idx],
          targetPrice |-> outcome.targetPrice,
          stopLoss |-> outcome.stopLoss]
    ELSE Null

\* a strategy error that is not caught: backtest() ends with the error
RethrowStrategyError(at) == "error"

\* backtest.ts:173-175: the catch block logs the error, the loop goes on
CatchStrategyError(at) == at

----------------------------------------------------------------------------
(* backtest(): the statistics, backtest.ts:179-208 *)

RECURSIVE SumPnl(_)
SumPnl(ts) ==
    IF ts = <<>> THEN 0 ELSE ts[1].profitLoss + SumPnl(Tail(ts))

WinningTrades(ts) == SelectSeq(ts, LAMBDA t : t.profitLoss > 0)
LosingTrades(ts) == SelectSeq(ts, LAMBDA t : t.profitLoss < 0)

\* winningTrades.length / completedTrades.length, without the `|| 0`
WinRateNoDefault(ts) == JsDiv(Len(WinningTrades(ts)), Len(ts))

\* backtest.ts:184  winningTrades.length / completedTrades.length || 0
WinRate(ts) ==
    LET q == JsDiv(Len(WinningTrades(ts)), Len(ts))
    IN IF q.k = "nan" \/ (q.k = "fin" /\ q.n = 0) THEN Fin(0, 1) ELSE q

Abs(x) == IF x < 0 THEN -x ELSE x

\* backtest.ts:186-190
ProfitFactor(ts) ==
    LET totalGain == SumPnl(WinningTrades(ts))
        totalLoss == Abs(SumPnl(LosingTrades(ts)))
    IN IF totalLoss > 0 THEN JsDiv(totalGain, totalLoss)
       ELSE IF totalGain > 0 THEN Inf(1) ELSE Fin(0, 1)

\* backtest.ts:204  (peak - balance) / peak
Drawdown(peak, balance) == JsDiv(peak - balance, peak)

\* backtest.ts:197-208: one pass of the loop over the trades
RECURSIVE DrawdownLoop(_, _, _, _)
DrawdownLoop(ts, maxDrawdown, peak, balance) ==
    IF ts = <<>> THEN maxDrawdown
    ELSE LET balance2 == balance + ts[1].profitLoss
             peak2 == IF balance2 > peak THEN balance2 ELSE peak
             drawdown == Drawdown(peak2, balance2)
             max2 == IF JsGreater(drawdown, maxDrawdown)
                     THEN drawdown ELSE maxDrawdown
         IN DrawdownLoop(Tail(ts), max2, peak2, balance2)

\* backtest.ts:193-208
MaxDrawdown(ts) == DrawdownLoop(ts, Fin(0, 1), 0, 0)

----------------------------------------------------------------------------
(* backtest(): the actions *)

Init ==
    /\ candles \in InputCandles
    /\ pc = "start"
    /\ i = 0
    /\ activePosition = Null
    /\ trades = <<>>
    /\ call = NoCall
    /\ lookedAt = {}
    /\ result = Null
    /\ strategy = "none"
    /\ data = Null
    /\ clock = 1
    /\ runs = <<>>
    /\ memory = Null

\* a check that lets an input of exactly startIndex candles through
HasTooFewCandlesStrict(cs, startIndex) == Len(cs) < startIndex

\* backtest.ts:17  marketData.candles.length <= startIndex
HasTooFewCandles(cs, startIndex) == Len(cs) <= startIndex

\* backtest.ts:17-19: too few candles, the call throws
BacktestReject ==
    /\ pc = "start"
    /\ HasTooFewCandles(candles, StartIndex)
    /\ pc' = "error"
    /\ UNCHANGED <<candles, i, activePosition, trades, call, lookedAt, result>>
    /\ UNCHANGED exVars
    /\ UNCHANGED memory

\* backtest.ts:21-36: enter the loop at startIndex
BacktestStart ==
    /\ pc = "start"
    /\ ~HasTooFewCandles(candles, StartIndex)
    /\ pc' = "loop"
    /\ i' = StartIndex
    /\ UNCHANGED <<candles, activePosition, trades, call, lookedAt, result>>
    /\ UNCHANGED exVars
    /\ UNCHANGED memory

\* an iteration that ends after every exit, the timeout included
ContinuesAfterAnyExit(reason) == reason # "none"

\* backtest.ts:64, 84, 104, 124: `continue` after a target or a stop exit;
\* the timeout exit (129-153) falls through to the entry step
ContinuesAfter(reason) == reason \in {"target", "stop"}

\* backtest.ts:36-177: one iteration of the loop
LoopIteration ==
    /\ pc = "loop"
    /\ i < Len(candles)
    /\ LET testCandles == Slice(candles, 0, i + 1)
           candle == candles[i + 1]
           reason == IF activePosition # Null
                     THEN ExitReason(activePosition, candle, i) ELSE "none"
           afterExit == IF reason = "none" THEN activePosition ELSE Null
           skipEntry == ContinuesAfter(reason)
       IN /\ trades' = IF reason = "none" THEN trades
                       ELSE Append(trades, ClosedTrade(activePosition, candle, reason))
          /\ IF ~skipEntry /\ MayEnter(afterExit)
             THEN \E outcome \in StrategyOutcomes :
                     /\ call' = [invoked |-> TRUE, index |-> i,
                                 data |-> testCandles, outcome |-> outcome]
                     /\ activePosition' = EntryStep(outcome, candle, i)
                     /\ pc' = IF outcome.kind = "throw"
                              THEN CatchStrategyError(pc) ELSE pc
             ELSE /\ call' = NoCall
                  /\ activePosition' = afterExit
                  /\ pc' = pc
          /\ lookedAt' = {i} \cup {k - 1 : k \in 1..Len(testCandles)}
    /\ i' = i + 1
    /\ UNCHANGED <<candles, result>>
    /\ UNCHANGED exVars
    /\ UNCHANGED memory

\* statistics that close a position left open at the last candle's close
CountedTradesClosingOpen(ts, pos, cs) ==
    IF pos = Null THEN ts
    ELSE Append(ts, ClosedTrade(pos, cs[Len(cs)], "signal"))

\* backtest.ts:177-221: after the loop nothing is pushed; the statistics
\* read `trades` alone, never activePosition
CountedTrades(ts, pos, cs) == ts

\* backtest.ts:179-221: the loop is over, compute and return the result
ComputeStatistics ==
    /\ pc = "loop"
    /\ i >= Len(candles)
    /\ pc' = "done"
    /\ LET counted == CountedTrades(trades, activePosition, candles)
       IN result' = [totalTrades |-> Len(counted),
                     winRate |-> WinRate(counted),
                     profitFactor |-> ProfitFactor(counted),
                     maxDrawdown |-> MaxDrawdown(counted),
                     trades |-> counted]
    /\ UNCHANGED <<candles, i, activePosition, trades, call, lookedAt>>
    /\ UNCHANGED exVars
    /\ UNCHANGED memory

Next ==
    \/ BacktestReject
    \/ BacktestStart
    \/ LoopIteration
    \/ ComputeStatistics

Spec == Init /\ [][Next]_vars

\* backtest() is a synchronous function: once called it runs to its return
\* or to its throw
FairSpec == Spec /\ WF_vars(Next)

----------------------------------------------------------------------------
(* Numbers of the strategies.  Prices, ATR and MACD values are fixed-point *)
(* integers in units of 1/PriceUnit; an indicator value that may be NaN or *)
(* undefined is a tagged value (Fin, Inf, NaN, Undef).                     *)

\* fixed-point unit of a price: 1.0 is PriceUnit
PriceUnit == 10000

\* the value `undefined` (the last element of an empty array)
Undef == [k |-> "undef"]

IsNumber(x) == x.k = "fin" \/ x.k = "inf"

\* x > y with the operands converted to numbers: undefined converts to NaN
JsGt(x, y) == IsNumber(x) /\ IsNumber(y) /\ JsGreater(x, y)

Min(a, b) == IF a < b THEN a ELSE b
Max(a, b) == IF a > b THEN a ELSE b

\* floor(n * 1000 / d), without an intermediate product above n or 1000 * d
MulDivK(n, d) == (n \div d) * 1000 + ((n % d) * 1000) \div d

\* the quotient n / d as a confidence: floor(n * ConfUnit / d)
ToConf(n, d) ==
    MulDivK(n, d) * 1000 + ((((n % d) * 1000) % d) * 1000) \div d

\* Number(x.toFixed(2)): a price rounded to two decimals
ToFixed2(x) == ((x + PriceUnit \div 200) \div (PriceUnit \div 100)) * (PriceUnit \div 100)

\* a clamp that lets the value through
ClampConfidenceOff(c) == c

\* prediction.ts:255, 450, 661  Math.min(Math.max(c, 0), 0.95)
ClampConfidence(c) == Min(Max(c, 0), 950000)

----------------------------------------------------------------------------
(* trendFollowingStrategy.execute, prediction.ts:182-316, on the values    *)
(* the indicators gave (the locals of prediction.ts:110-180)               *)

\* prediction.ts:212
MaxSignals == 18

\* prediction.ts:195-196: latestMACD && latestMACD.histogram > 0, and
\* latestMACD && latestMACD.MACD > latestMACD.signal
MacdHistogramPositive(m) == m # Undef /\ JsGt(m.histogram, Fin(0, 1))
MacdAboveSignal(m) == m # Undef /\ JsGt(m.MACD, m.signal)

\* a count in which a positive sentiment weighs 2, as the uptrend does
BullishCountHeavySentiment(ind, sentiment) ==
    (IF ind.isUptrend THEN 2 ELSE 0)
    + (IF ind.isAboveEMA20 THEN 1 ELSE 0)
    + (IF ind.isAboveEMA50 THEN 1 ELSE 0)
    + (IF ind.isAboveEMA100 THEN 1 ELSE 0)
    + (IF ind.isAboveEMA200 THEN 2 ELSE 0)
    + (IF ind.isPriceRising THEN 1 ELSE 0)
    + (IF ind.isFastEMARising THEN 1 ELSE 0)
    + (IF MacdHistogramPositive(ind.latestMACD) THEN 1 ELSE 0)
    + (IF MacdAboveSignal(ind.latestMACD) THEN 1 ELSE 0)
    + (IF JsGt(ind.latestRSI, Fin(50, 1)) /\ JsGt(Fin(70, 1), ind.latestRSI)
       THEN 1 ELSE 0)
    + (IF JsGt(ind.plusDI, ind.minusDI) THEN 1 ELSE 0)
    + (IF JsGt(ind.adxValue, Fin(25, 1)) THEN 1 ELSE 0)
    + (IF ind.isVolumeRising /\ ind.isPriceRising THEN 1 ELSE 0)
    + (IF ind.isOBVRising THEN 1 ELSE 0)
    + (IF sentiment > 300 THEN 2 ELSE 0)
    - (IF sentiment < -300 THEN 1 ELSE 0)

\* prediction.ts:183-209
BullishCount(ind, sentiment) ==
    (IF ind.isUptrend THEN 2 ELSE 0)
    + (IF ind.isAboveEMA20 THEN 1 ELSE 0)
    + (IF ind.isAboveEMA50 THEN 1 ELSE 0)
    + (IF ind.isAboveEMA100 THEN 1 ELSE 0)
    + (IF ind.isAboveEMA200 THEN 2 ELSE 0)
    + (IF ind.isPriceRising THEN 1 ELSE 0)
    + (IF ind.isFastEMARising THEN 1 ELSE 0)
    + (IF MacdHistogramPositive(ind.latestMACD) THEN 1 ELSE 0)
    + (IF MacdAboveSignal(ind.latestMACD) THEN 1 ELSE 0)
    + (IF JsGt(ind.latestRSI, Fin(50, 1)) /\ JsGt(Fin(70, 1), ind.latestRSI)
       THEN 1 ELSE 0)
    + (IF JsGt(ind.plusDI, ind.minusDI) THEN 1 ELSE 0)
    + (IF JsGt(ind.adxValue, Fin(25, 1)) THEN 1 ELSE 0)
    + (IF ind.isVolumeRising /\ ind.isPriceRising THEN 1 ELSE 0)
    + (IF ind.isOBVRising THEN 1 ELSE 0)
    + (IF sentiment > 300 THEN 1 ELSE 0)
    - (IF sentiment < -300 THEN 1 ELSE 0)

\* a rule that asks every signal to fire before it says 'long'
TrendDirectionUnanimous(count) ==
    IF count >= MaxSignals THEN "long"
    ELSE IF count * 100 <= MaxSignals * 35 THEN "short"
    ELSE "neutral"

\* prediction.ts:218, 233: the thresholds maxSignals * 0.60 and * 0.35
TrendDirection(count) ==
    IF count * 100 >= MaxSignals * 60 THEN "long"
    ELSE IF count * 100 <= MaxSignals * 35 THEN "short"
    ELSE "neutral"

\* prediction.ts:221, 235  Math.min(0.1, Math.abs((histogram || 0) / 15))
HistogramBonus(m) ==
    IF m = Undef \/ m.histogram.k # "fin" THEN 0
    ELSE LET h == Abs(m.histogram.n)
             d == m.histogram.d
         IN IF h * 10 >= 15 * d THEN 100000 ELSE ToConf(h, 15 * d)

\* prediction.ts:151, 250  atr / currentPrice > 0.03
IsHighVolatility(atr, price) == JsGt(JsDiv(atr, price), Fin(3, 100))

\* prediction.ts:216-255: the confidence
TrendConfidence(ind, sentiment) ==
    LET count == BullishCount(ind, sentiment)
        direction == TrendDirection(count)
        rsiIn(lo, hi) == JsGt(ind.latestRSI, Fin(lo, 1)) /\ JsGt(Fin(hi, 1), ind.latestRSI)
        strong == IF JsGt(ind.adxValue, Fin(30, 1)) THEN 50000 ELSE 0
        raw == CASE direction = "long" ->
                      500000 + (count * 400000) \div MaxSignals
                      + HistogramBonus(ind.latestMACD)
                      + (IF rsiIn(40, 70) THEN 50000 ELSE 0)
                      + strong
                      + sentiment * 100
                 [] direction = "short" ->
                      500000 + ((MaxSignals - count) * 400000) \div MaxSignals
                      + HistogramBonus(ind.latestMACD)
                      + (IF rsiIn(30, 60) THEN 50000 ELSE 0)
                      + strong
                      - sentiment * 100
                 [] OTHER -> 500000
        damped == IF IsHighVolatility(ind.atr, ind.currentPrice)
                  THEN (raw * 9) \div 10 ELSE raw
    IN ClampConfidence(damped)

\* prediction.ts:257-283: target and stop, before rounding
TrendTargetStop(ind, direction, confidence) ==
    LET ratio10 == MulDivK(ind.atr * 10, ind.currentPrice)
        mult == 1500 + confidence \div 1000 + ratio10
    IN CASE direction = "long" ->
              [target |-> ind.currentPrice + (ind.atr * mult) \div 1000,
               stop |-> ind.currentPrice - ind.atr]
         [] direction = "short" ->
              [target |-> ind.currentPrice - (ind.atr * mult) \div 1000,
               stop |-> ind.currentPrice + ind.atr]
         [] OTHER ->
              [target |-> ind.currentPrice + ind.atr,
               stop |-> ind.currentPrice - ind.atr \div 2]

\* prediction.ts:182-316: the PredictionResult returned
TrendFollowing(ind, sentiment, now) ==
    LET direction == TrendDirection(BullishCount(ind, sentiment))
        confidence == TrendConfidence(ind, sentiment)
        ts == TrendTargetStop(ind, direction, confidence)
    IN [kind |-> "ok",
        timestamp |-> now,
        currentPrice |-> ind.currentPrice,
        direction |-> direction,
        confidence |-> confidence,
        targetPrice |-> ToFixed2(ts.target),
        stopLoss |-> ToFixed2(ts.stop),
        atr |-> ind.atr,
        historicalAccuracy |->
            IF direction # "neutral"
            THEN 760000 + (confidence - 500000) \div 5 ELSE 760000]

----------------------------------------------------------------------------
(* The indicators of trendFollowingStrategy.execute, prediction.ts:103-180, *)
(* computed from the candles.  Values are fixed-point (1/PriceUnit);       *)
(* divisions round down to the unit.                                       *)

Closes(cs) == [k \in 1..Len(cs) |-> cs[k].close]
Volumes(cs) == [k \in 1..Len(cs) |-> cs[k].volume]

RECURSIVE SumSeq(_, _, _)
\* values[from] + ... + values[to], 1-based
SumSeq(values, from, to) ==
    IF from > to THEN 0
    ELSE IF from = to THEN values[from]
    ELSE SumSeq(values, from, (from + to) \div 2)
         + SumSeq(values, (from + to) \div 2 + 1, to)

\* one more EMA value: acc holds the values for the indices before k
EmaStep(values, period, acc) ==
    LET prev == acc[Len(acc)]
        k == Len(acc) + period
    IN Append(acc, prev + ((values[k] - prev) * 2) \div (period + 1))

RECURSIVE EmaLoop(_, _, _, _)
\* the EMA values up to index `last`; the range is walked by halves, which
\* keeps the evaluation shallow on long arrays
EmaLoop(values, period, acc, last) ==
    LET k == Len(acc) + period
    IN IF k > last THEN acc
       ELSE IF k = last THEN EmaStep(values, period, acc)
       ELSE EmaLoop(values, period,
                    EmaLoop(values, period, acc, (k + last) \div 2), last)

\* EMA.calculate({values, period}) of technicalindicators, called at
\* prediction.ts:82-85: seeded with the mean of the first `period` values,
\* one value per input from index period - 1 on
LibEMA(values, period) ==
    IF Len(values) < period THEN <<>>
    ELSE LET seed == SumSeq(values, 1, period) \div period
         IN EmaLoop(values, period, <<seed>>, Len(values))

\* prediction.ts:68-92: [] for no values, an array of NaN when the values
\* are fewer than the period, else the library's EMA with the period capped
\* at length - 1 (the values of the model hold no NaN to filter out)
CalculateEMA(values, period) ==
    IF Len(values) = 0 THEN <<>>
    ELSE IF Len(values) < period THEN [k \in 1..Len(values) |-> NaN]
    ELSE LET e == LibEMA(values, Min(period, Len(values) - 1))
         IN [k \in 1..Len(e) |-> Fin(e[k], PriceUnit)]

\* the last element of an array, undefined when it is empty
Last(arr) == IF Len(arr) = 0 THEN Undef ELSE arr[Len(arr)]

\* MACD.calculate of technicalindicators with periods 12, 26, 9, called at
\* prediction.ts:114-121: its last element.  MACD is EMA12 - EMA26 from the
\* 26th close on; the signal is the EMA9 of the MACD values.
LibMACDLast(closes) ==
    IF Len(closes) < 26 THEN Undef
    ELSE LET fast == LibEMA(closes, 12)
             slow == LibEMA(closes, 26)
             macd == [k \in 1..Len(slow) |-> fast[k + 14] - slow[k]]
             signal == LibEMA(macd, 9)
             m == macd[Len(macd)]
         IN IF Len(signal) = 0
            THEN [MACD |-> Fin(m, PriceUnit), signal |-> Undef, histogram |-> Undef]
            ELSE [MACD |-> Fin(m, PriceUnit),
                  signal |-> Fin(signal[Len(signal)], PriceUnit),
                  histogram |-> Fin(m - signal[Len(signal)], PriceUnit)]

\* the Wilder averages of the gains and of the losses after close st.k
WilderStep(closes, st) ==
    LET diff == closes[st.k] - closes[st.k - 1]
        g == IF diff > 0 THEN diff ELSE 0
        l == IF diff < 0 THEN -diff ELSE 0
    IN [k |-> st.k + 1,
        gain |-> (st.gain * 13 + g) \div 14,
        loss |-> (st.loss * 13 + l) \div 14]

RECURSIVE WilderGainLoss(_, _, _)
\* the Wilder averages up to close `last`, walked by halves
WilderGainLoss(closes, st, last) ==
    IF st.k > last THEN st
    ELSE IF st.k = last THEN WilderStep(closes, st)
    ELSE WilderGainLoss(closes,
                        WilderGainLoss(closes, st, (st.k + last) \div 2), last)

\* RSI.calculate of technicalindicators with period 14, called at
\* prediction.ts:123: its last element.  100 when the average loss is 0,
\* 0 when only the average gain is 0.
LibRSILast(closes) ==
    IF Len(closes) < 15 THEN Undef
    ELSE LET ups == [k \in 1..14 |->
                        Max(closes[k + 1] - closes[k], 0)]
             downs == [k \in 1..14 |->
                        Max(closes[k] - closes[k + 1], 0)]
             w == WilderGainLoss(closes,
                                 [k |-> 16, gain |-> SumSeq(ups, 1, 14) \div 14,
                                  loss |-> SumSeq(downs, 1, 14) \div 14],
                                 Len(closes))
         IN IF w.loss = 0 THEN Fin(100, 1)
            ELSE IF w.gain = 0 THEN Fin(0, 1)
            ELSE Fin(100 * w.gain, w.gain + w.loss)

\* prediction.ts:731-739: one more OBV value
ObvStep(closes, volumes, acc) ==
    LET prev == acc[Len(acc)]
        k == Len(acc) + 1
    IN Append(acc, IF closes[k] > closes[k - 1] THEN prev + volumes[k]
                   ELSE IF closes[k] < closes[k - 1] THEN prev - volumes[k]
                   ELSE prev)

RECURSIVE ObvLoop(_, _, _, _)
\* the OBV values up to index `last`, walked by halves
ObvLoop(closes, volumes, acc, last) ==
    LET k == Len(acc) + 1
    IN IF k > last THEN acc
       ELSE IF k = last THEN ObvStep(closes, volumes, acc)
       ELSE ObvLoop(closes, volumes,
                    ObvLoop(closes, volumes, acc, (k + last) \div 2), last)

\* prediction.ts:725-742
CalculateOBV(closes, volumes) == ObvLoop(closes, volumes, <<0>>, Len(closes))

\* prediction.ts:764-767, 968-977: the true range of candle k (k >= 2)
TrueRange(cs, k) ==
    Max(cs[k].high - cs[k].low,
        Max(Abs(cs[k].high - cs[k - 1].close), Abs(cs[k].low - cs[k - 1].close)))

\* prediction.ts:770-782: the directional movements of candle k (k >= 2)
PlusDM(cs, k) ==
    LET up == cs[k].high - cs[k - 1].high
        down == cs[k - 1].low - cs[k].low
    IN IF up > down /\ up > 0 THEN up ELSE 0

MinusDM(cs, k) ==
    LET up == cs[k].high - cs[k - 1].high
        down == cs[k - 1].low - cs[k].low
    IN IF up > down /\ up > 0 THEN 0
       ELSE IF down > up /\ down > 0 THEN down ELSE 0

\* prediction.ts:791-795, 810-814: +DI, -DI and DX from the smoothed values
DirectionalIndex(smoothTR, smoothPlus, smoothMinus) ==
    LET plusDI == JsDiv(smoothPlus * 100, smoothTR)
        minusDI == JsDiv(smoothMinus * 100, smoothTR)
    IN [plusDI |-> plusDI,
        minusDI |-> minusDI,
        dx |-> IF plusDI.k # "fin" \/ minusDI.k # "fin" THEN NaN
               ELSE IF smoothPlus + smoothMinus = 0 THEN NaN
               ELSE Fin(MulDivK(Abs(smoothPlus - smoothMinus) * 100,
                                smoothPlus + smoothMinus), 1000)]

\* prediction.ts:817  ((adx * (period - 1)) + dx) / period, in thousandths
SmoothAdx(adx, dx, period) ==
    IF adx.k # "fin" \/ dx.k # "fin" THEN NaN
    ELSE Fin((adx.n * (period - 1) + dx.n) \div period, 1000)

\* prediction.ts:803-820: one turn of the loop, for candle st.k
AdxStep(cs, period, st) ==
    LET tr2 == st.smoothTR - st.smoothTR \div period + TrueRange(cs, st.k)
        plus2 == st.smoothPlus - st.smoothPlus \div period + PlusDM(cs, st.k)
        minus2 == st.smoothMinus - st.smoothMinus \div period + MinusDM(cs, st.k)
        di == DirectionalIndex(tr2, plus2, minus2)
    IN [k |-> st.k + 1, smoothTR |-> tr2, smoothPlus |-> plus2, smoothMinus |-> minus2,
        adx |-> SmoothAdx(st.adx, di.dx, period),
        plusDI |-> di.plusDI, minusDI |-> di.minusDI]

RECURSIVE AdxLoop(_, _, _, _)
\* prediction.ts:803-820: the loop up to candle `last`, walked by halves
AdxLoop(cs, period, st, last) ==
    IF st.k > last THEN st
    ELSE IF st.k = last THEN AdxStep(cs, period, st)
    ELSE AdxLoop(cs, period, AdxLoop(cs, period, st, (st.k + last) \div 2), last)

\* prediction.ts:745-823: the last element of the array returned
CalculateADXLast(cs, period) ==
    IF Len(cs) < period + 1
    THEN [adx |-> Fin(0, 1), plusDI |-> Fin(0, 1), minusDI |-> Fin(0, 1)]
    ELSE LET trs == [k \in 1..period |-> TrueRange(cs, k + 1)]
             plus == [k \in 1..period |-> PlusDM(cs, k + 1)]
             minus == [k \in 1..period |-> MinusDM(cs, k + 1)]
             tr0 == SumSeq(trs, 1, period)
             plus0 == SumSeq(plus, 1, period)
             minus0 == SumSeq(minus, 1, period)
             di == DirectionalIndex(tr0, plus0, minus0)
             st == AdxLoop(cs, period,
                           [k |-> period + 2, smoothTR |-> tr0, smoothPlus |-> plus0,
                            smoothMinus |-> minus0, adx |-> di.dx,
                            plusDI |-> di.plusDI, minusDI |-> di.minusDI],
                           Len(cs))
         IN [adx |-> st.adx, plusDI |-> st.plusDI, minusDI |-> st.minusDI]

\* prediction.ts:826-842: checkTrendPattern(candles, 'up', periods)
CheckTrendPatternUp(cs, periods) ==
    IF Len(cs) < periods THEN FALSE
    ELSE LET first == Len(cs) - periods + 1
             higherHighs == Cardinality({k \in (first + 1)..Len(cs) :
                                            cs[k].high > cs[k - 1].high})
             higherLows == Cardinality({k \in (first + 1)..Len(cs) :
                                           cs[k].low > cs[k - 1].low})
         IN /\ higherHighs * 10 >= 6 * (periods - 1)
            /\ higherLows * 10 >= 5 * (periods - 1)

\* a smoothing step that forgets the weight of the prior ATR
AtrStepUnweighted(cs, period, st) ==
    [k |-> st.k + 1, atr |-> (st.atr + TrueRange(cs, st.k)) \div period]

\* prediction.ts:999-1002: one turn of Wilder's smoothing, for candle st.k
AtrStep(cs, period, st) ==
    [k |-> st.k + 1, atr |-> (st.atr * (period - 1) + TrueRange(cs, st.k)) \div period]

RECURSIVE AtrLoop(_, _, _, _)
\* prediction.ts:999-1002: the smoothing up to candle `last`, walked by halves
AtrLoop(cs, period, st, last) ==
    IF st.k > last THEN st
    ELSE IF st.k = last THEN AtrStep(cs, period, st)
    ELSE AtrLoop(cs, period, AtrLoop(cs, period, st, (st.k + last) \div 2), last)

\* prediction.ts:958-1006
CalculateATR(cs, period) ==
    IF Len(cs) < period + 1 THEN 0
    ELSE LET trs == [k \in 1..(Len(cs) - 1) |-> TrueRange(cs, k + 1)]
         IN IF Len(trs) <= period
            THEN SumSeq(trs, 1, Len(trs)) \div Len(trs)
            ELSE AtrLoop(cs, period,
                         [k |-> period + 2, atr |-> SumSeq(trs, 1, period) \div period],
                         Len(cs)).atr

\* prediction.ts:162-171: !isNaN(ema) && currentPrice > (ema || currentPrice)
IsAbove(price, ema) ==
    ema.k = "fin" /\ ema.n # 0 /\ JsGreater(Fin(price, PriceUnit), ema)

\* prediction.ts:175-176: the fast EMA is above its value two bars earlier
IsRising(ema) ==
    /\ Len(ema) > 3
    /\ ema[Len(ema)].k = "fin"
    /\ ema[Len(ema) - 2].k = "fin"
    /\ ema[Len(ema) - 2].n # 0
    /\ JsGreater(ema[Len(ema)], ema[Len(ema) - 2])

\* prediction.ts:133-137, 179: latestVolume / (volumeEMA.last || latestVolume)
\* is above 1.1
IsVolumeRising(volumes) ==
    LET e == Last(CalculateEMA(volumes, 20))
        latest == volumes[Len(volumes)]
        base == IF e.k = "fin" /\ e.n # 0 THEN e.n ELSE latest
    IN JsGt(JsDiv(latest * 10, base), Fin(11, 1))

\* prediction.ts:103-180: the values execute derives from the candles
TrendIndicators(cs) ==
    LET closes == Closes(cs)
        volumes == Volumes(cs)
        n == Len(cs)
        price == closes[n]
        ema20 == CalculateEMA(closes, 20)
        obv == CalculateOBV(closes, volumes)
        adx == CalculateADXLast(cs, 14)
    IN [currentPrice |-> price,
        atr |-> CalculateATR(cs, 14),
        isUptrend |-> CheckTrendPatternUp(cs, 5),
        isAboveEMA20 |-> IsAbove(price, Last(ema20)),
        isAboveEMA50 |-> IsAbove(price, Last(CalculateEMA(closes, 50))),
        isAboveEMA100 |-> IsAbove(price, Last(CalculateEMA(closes, 100))),
        isAboveEMA200 |->
            IsAbove(price, Last(CalculateEMA(closes, Min(200, (n * 3) \div 4)))),
        isPriceRising |-> n > 3 /\ closes[n] > closes[n - 2],
        isFastEMARising |-> IsRising(ema20),
        isVolumeRising |-> IsVolumeRising(volumes),
        isOBVRising |-> Len(obv) > 3 /\ obv[Len(obv)] > obv[Len(obv) - 2],
        latestMACD |-> LibMACDLast(closes),
        latestRSI |-> LibRSILast(closes),
        plusDI |-> adx.plusDI,
        minusDI |-> adx.minusDI,
        adxValue |-> adx.adx]

----------------------------------------------------------------------------
(* meanReversionStrategy.execute, prediction.ts:372-524, on the values the *)
(* indicators gave (the locals of prediction.ts:335-383)                   *)

\* Infinity as a price: the result of Math.min() over no level at all
\* (prediction.ts:480); above every price of the model
PosInfinity == 2000000000

RECURSIVE SeqMax(_, _)
\* Math.max(...levels) over the levels below the bound; 0 stands for -Infinity
SeqMax(levels, bound) ==
    IF levels = <<>> THEN 0
    ELSE LET rest == SeqMax(Tail(levels), bound)
         IN IF levels[1] < bound THEN Max(levels[1], rest) ELSE rest

RECURSIVE SeqMin(_, _)
\* Math.min(...levels) over the levels above the bound
SeqMin(levels, bound) ==
    IF levels = <<>> THEN PosInfinity
    ELSE LET rest == SeqMin(Tail(levels), bound)
         IN IF levels[1] > bound THEN Min(levels[1], rest) ELSE rest

\* prediction.ts:374-379: some level lies within 1% of the current price
IsNear(levels, price) ==
    \E k \in 1..Len(levels) : Abs(price - levels[k]) * 100 < price

\* %B measured from the middle band instead of the lower one
PercentBFromMiddle(rev) ==
    JsDiv(rev.currentPrice - rev.bb.middle, rev.bb.upper - rev.bb.lower)

\* prediction.ts:385-392: %B, the position of the price within the bands
PercentB(rev) ==
    JsDiv(rev.currentPrice - rev.bb.lower, rev.bb.upper - rev.bb.lower)

\* prediction.ts:395: the width of the bands
BandWidth(bb) == JsDiv(bb.upper - bb.lower, bb.middle)

\* prediction.ts:402
IsOversold(rev) ==
    \/ JsGt(Fin(15, 100), PercentB(rev))
    \/ JsGt(Fin(30, 1), rev.latestRSI)
    \/ JsGt(Fin(20, 1), rev.stoch.k)

\* prediction.ts:404
IsOverbought(rev) ==
    \/ JsGt(PercentB(rev), Fin(85, 100))
    \/ JsGt(rev.latestRSI, Fin(70, 1))
    \/ JsGt(rev.stoch.k, Fin(80, 1))

\* prediction.ts:407, 420
ReversionDirection(rev) ==
    IF IsOversold(rev)
       /\ (JsGt(rev.stoch.k, rev.stoch.d) \/ JsGt(rev.latestROC, Fin(-5, 10)))
    THEN "long"
    ELSE IF IsOverbought(rev)
            /\ (JsGt(rev.stoch.d, rev.stoch.k) \/ JsGt(Fin(5, 10), rev.latestROC))
    THEN "short"
    ELSE "neutral"

\* x / 100 as a confidence, for a percentage x >= 0 (Math.max(0, x) / 100)
PercentConf(x) == ToConf(Max(0, x.n), x.d * 100)

\* prediction.ts:399-450: the confidence
ReversionConfidence(rev, sentiment) ==
    LET direction == ReversionDirection(rev)
        pb == PercentB(rev)
        pbConf == ToConf(pb.n, pb.d)
        rsiConf == PercentConf(rev.latestRSI)
        kConf == PercentConf(rev.stoch.k)
        volume == IF JsGt(rev.volumeRatio, Fin(12, 10)) THEN 50000 ELSE 0
        raw == CASE direction = "long" ->
                      650000
                      + Min(150000, (150000 - Max(0, pbConf)) * 2)
                      + Min(100000, 300000 - rsiConf)
                      + Min(100000, 200000 - kConf)
                      + volume
                      + (IF IsNear(rev.support, rev.currentPrice) THEN 100000 ELSE 0)
                      + sentiment * 50
                 [] direction = "short" ->
                      650000
                      + Min(150000, (Min(1000000, pbConf) - 850000) * 2)
                      + Min(100000, rsiConf - 700000)
                      + Min(100000, kConf - 800000)
                      + volume
                      + (IF IsNear(rev.resistance, rev.currentPrice) THEN 100000 ELSE 0)
                      - sentiment * 50
                 [] OTHER -> 500000
        moving == IF \/ direction = "long" /\ rev.currentPrice > rev.prevClose
                     \/ direction = "short" /\ rev.currentPrice < rev.prevClose
                  THEN raw + 50000 ELSE raw
        width == BandWidth(rev.bb)
        scaled == IF JsGt(Fin(5, 100), width) THEN (moving * 11) \div 10
                  ELSE IF JsGt(width, Fin(6, 100)) THEN (moving * 9) \div 10
                  ELSE moving
    IN ClampConfidence(scaled)

\* prediction.ts:456-491: target and stop, before rounding
ReversionTargetStop(rev, direction) ==
    LET atrStop == (rev.atr * 3) \div 2
        nearestSupport == SeqMax(rev.support, rev.currentPrice)
        nearestResistance == SeqMin(rev.resistance, rev.currentPrice)
    IN CASE direction = "long" ->
              [target |-> rev.bb.middle,
               stop |-> IF IsNear(rev.support, rev.currentPrice) /\ nearestSupport > 0
                        THEN Min(rev.currentPrice - atrStop, (nearestSupport * 99) \div 100)
                        ELSE rev.currentPrice - atrStop]
         [] direction = "short" ->
              [target |-> rev.bb.middle,
               stop |-> IF IsNear(rev.resistance, rev.currentPrice) /\ nearestResistance > 0
                        THEN IF nearestResistance = PosInfinity THEN PosInfinity
                             ELSE Max(rev.currentPrice + atrStop,
                                      (nearestResistance * 101) \div 100)
                        ELSE rev.currentPrice + atrStop]
         [] OTHER ->
              [target |-> rev.bb.middle,
               stop |-> (rev.currentPrice * 102) \div 100]

\* Number(x.toFixed(2)) of a price that may be Infinity
ToFixed2OrInfinity(x) == IF x = PosInfinity THEN PosInfinity ELSE ToFixed2(x)

\* prediction.ts:385-392, 402: reading a band or a StochRSI value that is
\* missing, or dividing by a band range of zero, throws
ReversionThrows(rev) ==
    \/ rev.bb = Undef
    \/ rev.bb.upper = rev.bb.lower
    \/ rev.stoch = Undef

\* prediction.ts:327-524: the outcome of execute
MeanReversion(rev, sentiment, now) ==
    IF ReversionThrows(rev) THEN Throw
    ELSE LET direction == ReversionDirection(rev)
             confidence == ReversionConfidence(rev, sentiment)
             ts == ReversionTargetStop(rev, direction)
         IN [kind |-> "ok",
             timestamp |-> now,
             currentPrice |-> rev.currentPrice,
             direction |-> direction,
             confidence |-> confidence,
             targetPrice |-> ToFixed2(ts.target),
             stopLoss |-> ToFixed2OrInfinity(ts.stop),
             percentB |-> PercentB(rev),
             historicalAccuracy |->
                 IF direction # "neutral"
                 THEN 720000 + (confidence - 500000) \div 10 ELSE 720000]

----------------------------------------------------------------------------
(* mlEnhancedStrategy.execute, prediction.ts:535-721 *)

\* prediction.ts:562-575: the weights of the two strategies, in tenths
RegimeWeights(isTrending, isRanging) ==
    IF isTrending THEN [trend |-> 8, reversion |-> 2]
    ELSE IF isRanging THEN [trend |-> 2, reversion |-> 8]
    ELSE [trend |-> 5, reversion |-> 5]

\* a weighted price; a stop of Infinity stays Infinity
Blend(a, b, w) ==
    IF a = PosInfinity \/ b = PosInfinity THEN PosInfinity
    ELSE (a * w.trend + b * w.reversion) \div 10

\* the composite that averages the directions when the strategies disagree:
\* opposite directions cancel to 'neutral'
CombineAveraged(tp, rp, isTrending, isRanging) ==
    LET w == RegimeWeights(isTrending, isRanging)
    IN [direction |-> IF tp.direction = rp.direction THEN tp.direction
                      ELSE IF tp.direction = "neutral" THEN rp.direction
                      ELSE IF rp.direction = "neutral" THEN tp.direction
                      ELSE "neutral",
        confidence |-> (tp.confidence * w.trend + rp.confidence * w.reversion) \div 10,
        target |-> Blend(tp.targetPrice, rp.targetPrice, w),
        stop |-> Blend(tp.stopLoss, rp.stopLoss, w)]

\* the composite that ignores the regime when the strategies disagree
CombineByConfidence(tp, rp, isTrending, isRanging) ==
    LET w == RegimeWeights(isTrending, isRanging)
        take(p) ==
            [direction |-> p.direction,
             confidence |-> (p.confidence * 90) \div 100,
             target |-> p.targetPrice, stop |-> p.stopLoss]
    IN IF tp.direction = rp.direction /\ tp.direction \in {"long", "short"}
       THEN [direction |-> tp.direction,
             confidence |->
                 (((tp.confidence * w.trend + rp.confidence * w.reversion) \div 10)
                  * 11) \div 10,
             target |-> Blend(tp.targetPrice, rp.targetPrice, w),
             stop |-> Blend(tp.stopLoss, rp.stopLoss, w)]
       ELSE IF tp.confidence > rp.confidence THEN take(tp)
       ELSE take(rp)

\* prediction.ts:577-634: direction, confidence, target and stop
Combine(tp, rp, isTrending, isRanging) ==
    LET w == RegimeWeights(isTrending, isRanging)
        take(p, penalty) ==
            [direction |-> p.direction,
             confidence |-> (p.confidence * penalty) \div 100,
             target |-> p.targetPrice, stop |-> p.stopLoss]
    IN IF tp.direction = rp.direction /\ tp.direction \in {"long", "short"}
       THEN [direction |-> tp.direction,
             confidence |->
                 (((tp.confidence * w.trend + rp.confidence * w.reversion) \div 10)
                  * 11) \div 10,
             target |-> Blend(tp.targetPrice, rp.targetPrice, w),
             stop |-> Blend(tp.stopLoss, rp.stopLoss, w)]
       ELSE IF isTrending THEN take(tp, 95)
       ELSE IF isRanging THEN take(rp, 95)
       ELSE IF tp.confidence > rp.confidence THEN take(tp, 90)
       ELSE take(rp, 90)

\* prediction.ts:639-661: the adjustments by day, hour and sentiment
Seasonal(confidence, direction, sentiment, day, hour) ==
    LET weekend == IF day = 0 \/ day = 6
                   THEN (confidence * 95) \div 100 ELSE confidence
        asia == IF hour >= 1 /\ hour <= 9 /\ direction = "long"
                THEN (weekend * 105) \div 100 ELSE weekend
        mood == IF \/ direction = "long" /\ sentiment > 500
                   \/ direction = "short" /\ sentiment < -500
                THEN (asia * 105) \div 100 ELSE asia
    IN ClampConfidence(mood)

\* prediction.ts:535-721: the outcome of execute, from the outcomes of the
\* two strategies it calls first
MlEnhanced(tp, rp, bb, adx, sentiment, now, day, hour) ==
    IF tp.kind = "throw" \/ rp.kind = "throw" THEN Throw
    ELSE LET isTrending == JsGt(adx, Fin(25, 1))
             isRanging == JsGt(Fin(5, 100), BandWidth(bb)) /\ JsGt(Fin(20, 1), adx)
             c == Combine(tp, rp, isTrending, isRanging)
             confidence == Seasonal(c.confidence, c.direction, sentiment, day, hour)
             base == Max(tp.historicalAccuracy, rp.historicalAccuracy)
         IN [kind |-> "ok",
             timestamp |-> now,
             currentPrice |-> tp.currentPrice,
             direction |-> c.direction,
             confidence |-> confidence,
             targetPrice |-> ToFixed2OrInfinity(c.target),
             stopLoss |-> ToFixed2OrInfinity(c.stop),
             historicalAccuracy |->
                 IF c.direction # "neutral"
                 THEN base + (confidence - 500000) \div 8 ELSE base]

----------------------------------------------------------------------------
(* Inputs of the direct execute calls *)

\* the number of execute calls made on one input
MaxRuns == 2
\* the longest of the short candle sequences
ShortLen == 10
\* the length of the long flat candle sequence
FlatLen == 300
\* the length of the rising candle sequence
RisingLen == 250

\* the instants the wall clock can show: Date.now(), getDay(), getHours()
Instants ==
    << [now |-> 1700000000, day |-> 3, hour |-> 14],
       [now |-> 1700100000, day |-> 3, hour |-> 5],
       [now |-> 1700200000, day |-> 6, hour |-> 14] >>

\* n candles whose close moves by `slope` per bar from 100.0, with the
\* high and the low `spread` away from the close
Series(n, slope, spread) ==
    [k \in 1..n |->
        LET c == 100 * PriceUnit + (k - 1) * slope
        IN Candle(TimeOf(k - 1), c, c + spread, c - spread, c, 10 * PriceUnit)]

\* the next close of a series that rises by 0.5% per bar
GrowStep(acc) ==
    Append(acc, acc[Len(acc)] + (acc[Len(acc)] * 5) \div 1000)

RECURSIVE GrowLoop(_, _)
\* the closes up to index `last`, walked by halves
GrowLoop(acc, last) ==
    IF Len(acc) >= last THEN acc
    ELSE IF Len(acc) + 1 = last THEN GrowStep(acc)
    ELSE GrowLoop(GrowLoop(acc, (Len(acc) + 1 + last) \div 2), last)

\* n candles from 100.0 on, each opening at the close before it, closing
\* 0.5% above its open, with the high at the close and the low at the open
RisingSeries(n) ==
    LET closes == GrowLoop(<< 100 * PriceUnit >>, n)
    IN [k \in 1..n |->
           LET c == closes[k]
               o == IF k = 1 THEN c ELSE closes[k - 1]
           IN Candle(TimeOf(k - 1), o, c, o, c, 10 * PriceUnit)]

CandleInputs ==
    { [kind |-> "candles", candles |-> Series(n, slope, Abs(slope) \div 2),
       marketSentiment |-> s] :
        n \in 2..ShortLen, slope \in {-PriceUnit, 0, PriceUnit},
        s \in {-400, 0, 400} }
    \cup
    { [kind |-> "candles", candles |-> Series(FlatLen, 0, 0),
       marketSentiment |-> 0] }
    \cup
    { [kind |-> "candles", candles |-> RisingSeries(RisingLen),
       marketSentiment |-> 0] }
    \cup
    { [kind |-> "candles", candles |-> Series(n, slope, PriceUnit \div 2),
       marketSentiment |-> 0] :
        n \in {15, 16, 60}, slope \in {-PriceUnit, 0, PriceUnit} }

\* the values of the trend indicators, by groups of signals
TrendSnapshot(up, above, rising, volume, macd, rsi, dmi, atr) ==
    [currentPrice |-> 100 * PriceUnit,
     atr |-> atr,
     isUptrend |-> up,
     isAboveEMA20 |-> above,
     isAboveEMA50 |-> above,
     isAboveEMA100 |-> above,
     isAboveEMA200 |-> up,
     isPriceRising |-> rising,
     isFastEMARising |-> rising,
     isVolumeRising |-> volume,
     isOBVRising |-> volume,
     latestMACD |-> macd,
     latestRSI |-> rsi,
     plusDI |-> dmi.plusDI,
     minusDI |-> dmi.minusDI,
     adxValue |-> dmi.adx]

Macd(m, s) == [MACD |-> Fin(m, 100), signal |-> Fin(s, 100), histogram |-> Fin(m - s, 100)]

MacdValues == { Undef, Macd(500, 200), Macd(-60, 0) }
RsiValues == { Fin(45, 1), Fin(65, 1) }
DmiValues ==
    { [adx |-> NaN, plusDI |-> NaN, minusDI |-> NaN],
      [adx |-> Fin(35, 1), plusDI |-> Fin(30, 1), minusDI |-> Fin(10, 1)],
      [adx |-> Fin(15, 1), plusDI |-> Fin(10, 1), minusDI |-> Fin(30, 1)] }
AtrValues == { PriceUnit, 4 * PriceUnit }
Sentiments == { -1000, 0, 1000 }

TrendSnapshots ==
    { TrendSnapshot(up, above, rising, volume, macd, rsi, dmi, atr) :
        up \in BOOLEAN, above \in BOOLEAN, rising \in BOOLEAN, volume \in BOOLEAN,
        macd \in MacdValues, rsi \in RsiValues, dmi \in DmiValues, atr \in AtrValues }

\* the values of the mean-reversion indicators
ReversionSnapshot(p, bb, stoch, rsi, roc, volumeRatio) ==
    [currentPrice |-> p.price,
     prevClose |-> p.prev,
     support |-> p.support,
     resistance |-> p.resistance,
     atr |-> PriceUnit,
     bb |-> bb,
     stoch |-> stoch,
     latestRSI |-> rsi,
     latestROC |-> roc,
     volumeRatio |-> volumeRatio]

Bands(lower, middle, upper) ==
    [upper |-> upper * (PriceUnit \div 10), middle |-> middle * (PriceUnit \div 10),
     lower |-> lower * (PriceUnit \div 10)]

PriceCases ==
    { [price |-> 95 * PriceUnit, prev |-> 94 * PriceUnit,
       support |-> << 948 * (PriceUnit \div 10) >>, resistance |-> <<>>],
      [price |-> 105 * PriceUnit, prev |-> 106 * PriceUnit,
       support |-> <<>>, resistance |-> << 1048 * (PriceUnit \div 10) >>],
      [price |-> 105 * PriceUnit, prev |-> 104 * PriceUnit,
       support |-> <<>>,
       resistance |-> << 1053 * (PriceUnit \div 10), 108 * PriceUnit >>],
      [price |-> 100 * PriceUnit, prev |-> 100 * PriceUnit,
       support |-> <<>>, resistance |-> <<>>] }

BandValues ==
    { Undef, Bands(1000, 1000, 1000), Bands(980, 1000, 1020),
      Bands(972, 1000, 1028), Bands(900, 1000, 1100) }
StochValues ==
    { Undef, [k |-> Fin(10, 1), d |-> Fin(20, 1)],
      [k |-> Fin(90, 1), d |-> Fin(80, 1)], [k |-> Fin(50, 1), d |-> Fin(50, 1)] }
ReversionRsiValues == { Fin(25, 1), Fin(50, 1), Fin(75, 1) }
RocValues == { Fin(-1, 1), Fin(1, 1) }
VolumeRatios == { NaN, Fin(15, 10) }

ReversionSnapshots ==
    { ReversionSnapshot(p, bb, stoch, rsi, roc, vr) :
        p \in PriceCases, bb \in BandValues, stoch \in StochValues,
        rsi \in ReversionRsiValues, roc \in RocValues, vr \in VolumeRatios }

\* the snapshots the composite strategy is run on: both strategies read the
\* same candles, so the price and the ATR agree
MlTrendSnapshots ==
    { TrendSnapshot(b, b, b, b, macd, Fin(65, 1), dmi, PriceUnit) :
        b \in BOOLEAN, macd \in { Undef, Macd(500, 200) }, dmi \in DmiValues }
    \cup { TrendSnapshot(FALSE, TRUE, TRUE, FALSE, macd, Fin(65, 1), dmi, PriceUnit) :
              macd \in { Undef, Macd(500, 200) }, dmi \in DmiValues }

MlReversionSnapshots ==
    { ReversionSnapshot(p, bb, stoch, Fin(r, 1), Fin(1, 1), NaN) :
        p \in PriceCases,
        bb \in { Bands(980, 1000, 1020), Bands(900, 1000, 1100) },
        stoch \in { [k |-> Fin(10, 1), d |-> Fin(20, 1)],
                    [k |-> Fin(90, 1), d |-> Fin(80, 1)] },
        r \in { 25, 75 } }
    \cup { ReversionSnapshot(p, bb, [k |-> Fin(50, 1), d |-> Fin(50, 1)],
                             Fin(50, 1), Fin(1, 1), NaN) :
              p \in PriceCases,
              bb \in { Bands(980, 1000, 1020), Bands(900, 1000, 1100) } }

Snapshot(t, r, s) ==
    [kind |-> "snapshot", trend |-> t, reversion |-> r, marketSentiment |-> s]

NoReversion == ReversionSnapshot(
    [price |-> 100 * PriceUnit, prev |-> 100 * PriceUnit,
     support |-> <<>>, resistance |-> <<>>], Undef, Undef, Undef, Undef, NaN)

NoTrend == TrendSnapshot(FALSE, FALSE, FALSE, FALSE, Undef, Undef,
                         [adx |-> Fin(0, 1), plusDI |-> Fin(0, 1), minusDI |-> Fin(0, 1)], 0)

\* the same indicator values for an asset priced at 0.0030, with an ATR of
\* 0.0002
LowPriceSnapshots ==
    { [t EXCEPT !.currentPrice = (30 * PriceUnit) \div 10000,
                !.atr = (2 * PriceUnit) \div 10000] : t \in MlTrendSnapshots }

\* the strategy and the input of a run
ExecInputs ==
    { [strategy |-> "trend-following", data |-> d] : d \in CandleInputs }
    \cup { [strategy |-> "trend-following", data |-> Snapshot(t, NoReversion, s)] :
             t \in TrendSnapshots, s \in Sentiments }
    \cup { [strategy |-> "trend-following", data |-> Snapshot(t, NoReversion, 0)] :
             t \in LowPriceSnapshots }
    \cup { [strategy |-> "mean-reversion", data |-> Snapshot(NoTrend, r, s)] :
             r \in ReversionSnapshots, s \in Sentiments }
    \cup { [strategy |-> "ml-enhanced",
            data |-> Snapshot([t EXCEPT !.currentPrice = r.currentPrice], r, s)] :
             t \in MlTrendSnapshots, r \in MlReversionSnapshots, s \in Sentiments }

----------------------------------------------------------------------------
(* The direct execute calls *)

\* trendFollowingStrategy.execute(data), prediction.ts:102-316
TrendExecute(d, now) ==
    TrendFollowing(IF d.kind = "candles" THEN TrendIndicators(d.candles) ELSE d.trend,
                   d.marketSentiment, now)

\* meanReversionStrategy.execute(data), prediction.ts:327-524
ReversionExecute(d, now) == MeanReversion(d.reversion, d.marketSentiment, now)

\* mlEnhancedStrategy.execute(data), prediction.ts:535-721
MlExecute(d, t) ==
    MlEnhanced(TrendExecute(d, t.now), ReversionExecute(d, t.now),
               d.reversion.bb, d.trend.adxValue, d.marketSentiment,
               t.now, t.day, t.hour)

InitExec ==
    /\ candles = <<>>
    /\ pc = "idle"
    /\ i = 0
    /\ activePosition = Null
    /\ trades = <<>>
    /\ call = NoCall
    /\ lookedAt = {}
    /\ result = Null
    /\ \E x \in ExecInputs : strategy = x.strategy /\ data = x.data
    /\ clock = 1
    /\ runs = <<>>
    /\ memory = Null

ExecuteTrend ==
    /\ strategy = "trend-following"
    /\ Len(runs) < MaxRuns
    /\ runs' = Append(runs, TrendExecute(data, Instants[clock].now))
    /\ UNCHANGED <<strategy, data, clock>>
    /\ UNCHANGED btVars
    /\ UNCHANGED memory

ExecuteReversion ==
    /\ strategy = "mean-reversion"
    /\ Len(runs) < MaxRuns
    /\ runs' = Append(runs, ReversionExecute(data, Instants[clock].now))
    /\ UNCHANGED <<strategy, data, clock>>
    /\ UNCHANGED btVars
    /\ UNCHANGED memory

ExecuteMl ==
    /\ strategy = "ml-enhanced"
    /\ Len(runs) < MaxRuns
    /\ runs' = Append(runs, MlExecute(data, Instants[clock]))
    /\ UNCHANGED <<strategy, data, clock>>
    /\ UNCHANGED btVars
    /\ UNCHANGED memory

\* time passes between two calls
Tick ==
    /\ Len(runs) >= 1
    /\ Len(runs) < MaxRuns
    /\ \E c \in (clock + 1)..Len(Instants) : clock' = c
    /\ UNCHANGED <<strategy, data, runs>>
    /\ UNCHANGED btVars
    /\ UNCHANGED memory

NextExec ==
    \/ ExecuteTrend
    \/ ExecuteReversion
    \/ ExecuteMl
    \/ Tick

SpecExec == InitExec /\ [][NextExec]_vars

----------------------------------------------------------------------------
(* The objects behind marketData.candles.  An array holds references to    *)
(* its candle objects: `objects` maps a reference to the OHLCV it holds,   *)
(* `arrays` maps the name of an array to the references it holds.          *)

\* number of candles of the input whose objects are followed
MemLen == 3

\* the candles an array holds, read through its references
CandlesOf(m, name) ==
    [k \in 1..Len(m.arrays[name]) |-> m.objects[m.arrays[name][k]]]

\* an assignment `testCandles = candles`: the same array under a second name
SliceAlias(arrays, src, from, to) ==
    [arrays |-> arrays, given |-> src]

\* backtest.ts:37  candles.slice(0, i + 1): a new array that holds the
\* references src[from] .. src[to - 1]
SliceCopy(arrays, src, from, to) ==
    [arrays |-> [arrays EXCEPT !["testCandles"] = SubSeq(arrays[src], from + 1, to)],
     given |-> "testCandles"]

\* what a strategy that is not one of the repository's may do to the array
\* it is given: drop its last element, reverse it, or assign a field of one
\* of its candles
ForeignWrites(m) ==
    { [kind |-> "pop"], [kind |-> "reverse"] }
    \cup { [kind |-> "field", k |-> k] : k \in 1..Len(m.arrays[m.given]) }

ApplyWrite(m, w) ==
    LET arr == m.arrays[m.given]
    IN CASE w.kind = "pop" ->
              [m EXCEPT !.arrays[m.given] = SubSeq(arr, 1, Len(arr) - 1)]
         [] w.kind = "reverse" ->
              [m EXCEPT !.arrays[m.given] =
                    [k \in 1..Len(arr) |-> arr[Len(arr) + 1 - k]]]
         [] OTHER ->
              [m EXCEPT !.objects[arr[w.k]].close = 0]

InitMemory ==
    /\ candles = <<>>
    /\ pc = "idle"
    /\ i = 0
    /\ activePosition = Null
    /\ trades = <<>>
    /\ call = NoCall
    /\ lookedAt = {}
    /\ result = Null
    /\ strategy = "none"
    /\ data = Null
    /\ clock = 1
    /\ runs = <<>>
    /\ \E a \in Shapes, b \in Shapes :
          LET cs == Pattern(MemLen, StartIndex, a, b)
          IN memory = [objects |-> cs,
                       arrays |-> [candles |-> [k \in 1..MemLen |-> k],
                                   testCandles |-> <<>>],
                       given |-> "none",
                       index |-> StartIndex,
                       closes |-> <<>>,
                       original |-> cs,
                       written |-> FALSE,
                       lastWrite |-> "none"]

\* backtest.ts:37-41: the prefix of the iteration
MemSlice ==
    /\ memory.given = "none"
    /\ memory.index < Len(memory.arrays["candles"])
    /\ LET s == SliceCopy(memory.arrays, "candles", 0, memory.index + 1)
       IN memory' = [memory EXCEPT !.arrays = s.arrays, !.given = s.given]
    /\ UNCHANGED btVars
    /\ UNCHANGED exVars

\* backtest.ts:158 with one of the repository's strategies: execute derives
\* new arrays with map (prediction.ts:104-107, 329-332) and writes nothing
\* to the array it is given
MemExecuteOwn ==
    /\ memory.given # "none"
    /\ memory' = [memory EXCEPT
                    !.closes = [k \in 1..Len(memory.arrays[memory.given]) |->
                                   memory.objects[memory.arrays[memory.given][k]].close],
                    !.given = "none",
                    !.index = memory.index + 1]
    /\ UNCHANGED btVars
    /\ UNCHANGED exVars

\* backtest.ts:158 with any other TradingStrategy: execute may write to the
\* array it is given
MemExecuteForeign ==
    /\ memory.given # "none"
    /\ \E w \in ForeignWrites(memory) :
          memory' = [ApplyWrite(memory, w) EXCEPT
                        !.given = "none",
                        !.index = memory.index + 1,
                        !.written = memory.written \/ w.kind = "field",
                        !.lastWrite = w.kind]
    /\ UNCHANGED btVars
    /\ UNCHANGED exVars

NextMemory ==
    \/ MemSlice
    \/ MemExecuteOwn
    \/ MemExecuteForeign

SpecMemory == InitMemory /\ [][NextMemory]_vars

----------------------------------------------------------------------------
(* Claims about backtest() *)

\* the index of the candle with time t
IndexOfTime(t) == (t - 1000) \div 60

\* C1: the strategy call made at index i receives exactly the prefix
\* candles[0..i] (length i + 1), and neither that call nor the entry or exit
\* decision of the iteration reads a candle of index greater than i.
C1_CausalPrefix ==
    /\ call.invoked =>
          /\ Len(call.data) = call.index + 1
          /\ call.index = i - 1
          /\ \A k \in 1..Len(call.data) : call.data[k] = candles[k]
    /\ \A k \in lookedAt : k <= i - 1
    /\ \A k \in 1..Len(trades) : IndexOfTime(trades[k].exit.timestamp) <= i - 1
    /\ activePosition # Null => activePosition.entry.index <= i - 1

\* C1 witness: the strategy was called on a proper prefix, after the first
\* index, and opened a position there.
C1_Witness ==
    /\ call.invoked
    /\ call.index > StartIndex
    /\ Len(call.data) < Len(candles)
    /\ activePosition # Null
    /\ activePosition.entry.index = call.index

\* C2: with a position open, the exits are tried in the order target, stop,
\* timeout: a candle that reaches both target and stop closes with reason
\* 'target', and the timeout close (reason 'signal', at the candle's close)
\* happens only when neither is reached and i - entryIndex >= 10.
C2_ExitOrder ==
    [][ (pc = "loop" /\ i < Len(candles) /\ activePosition # Null) =>
        LET c == candles[i + 1]
            p == activePosition
            isLong == p.entry.direction = "long"
            targetHit == IF isLong THEN c.high >= p.targetPrice
                         ELSE c.low <= p.targetPrice
            stopHit == IF isLong THEN c.low <= p.stopLoss
                       ELSE c.high >= p.stopLoss
            expired == i - p.entry.index >= 10
            closed == Len(trades') = Len(trades) + 1
            last == trades'[Len(trades')]
        IN /\ targetHit => closed /\ last.exit.reason = "target"
           /\ (~targetHit /\ stopHit) => closed /\ last.exit.reason = "stop"
           /\ (~targetHit /\ ~stopHit /\ expired) =>
                 closed /\ last.exit.reason = "signal" /\ last.exit.price = c.close
           /\ (~targetHit /\ ~stopHit /\ ~expired) => trades' = trades
      ]_vars

\* C2 witness: a long trade closed with reason 'target' on a candle that
\* also reached the stop (every long position of the model has its stop
\* at 95).
C2_Witness ==
    \E k \in 1..Len(trades) :
        LET c == candles[IndexOfTime(trades[k].exit.timestamp) + 1]
        IN /\ trades[k].exit.reason = "target"
           /\ trades[k].entry.direction = "long"
           /\ c.high >= trades[k].exit.price
           /\ c.low <= 95

\* C3: a position is opened at candle i exactly when the entry step runs
\* with no position open, the strategy returns normally, its direction is
\* not neutral and its confidence is strictly above 0.65; the position
\* takes candles[i].close, the index i and the strategy's target and stop.
\* A neutral result never opens a position.
C3_EntryRule ==
    [][ (pc = "loop" /\ i < Len(candles)) =>
        LET c == candles[i + 1]
            opened == activePosition' # Null /\ activePosition'.entry.index = i
            flatAtEntry ==
                \/ activePosition = Null
                \/ /\ Len(trades') = Len(trades) + 1
                   /\ trades'[Len(trades')].exit.reason = "signal"
            signal ==
                /\ call'.invoked
                /\ call'.outcome.kind = "ok"
                /\ call'.outcome.direction # "neutral"
                /\ call'.outcome.confidence > 650000
        IN /\ opened <=> (flatAtEntry /\ signal)
           /\ opened =>
                 /\ activePosition'.entry.price = c.close
                 /\ activePosition'.entry.timestamp = c.time
                 /\ activePosition'.entry.direction = call'.outcome.direction
                 /\ activePosition'.targetPrice = call'.outcome.targetPrice
                 /\ activePosition'.stopLoss = call'.outcome.stopLoss
           /\ (call'.invoked /\ ~opened) => activePosition' = Null
      ]_vars

\* C3 witness: a short position just opened by the strategy's result, and
\* the state is one the strategy was called in.
C3_Witness ==
    /\ call.invoked
    /\ call.outcome.kind = "ok"
    /\ call.outcome.direction = "short"
    /\ activePosition # Null
    /\ activePosition.entry.index = call.index
    /\ activePosition.targetPrice = call.outcome.targetPrice

\* C4: the simulator is flat or holds exactly one position; a position is
\* never replaced while it is open, every position that ends appends exactly
\* one Trade (its own), and the Trades appended before stay as they were.
C4_SinglePosition ==
    [][ /\ Len(trades') \in {Len(trades), Len(trades) + 1}
        /\ SubSeq(trades', 1, Len(trades)) = trades
        /\ (activePosition # Null /\ activePosition' # activePosition)
              <=> Len(trades') = Len(trades) + 1
        /\ Len(trades') = Len(trades) + 1 =>
              LET last == trades'[Len(trades')]
              IN /\ last.entry.timestamp = activePosition.entry.timestamp
                 /\ last.entry.price = activePosition.entry.price
                 /\ last.entry.direction = activePosition.entry.direction
      ]_vars

\* C4 witness: two positions have been closed and a third one is open.
C4_Witness ==
    /\ Len(trades) >= 2
    /\ activePosition # Null

\* C5: the maxDrawdown of every BacktestResult lies in [0, 1].
C5_MaxDrawdownInUnitInterval ==
    pc = "done" =>
        /\ result.maxDrawdown.k = "fin"
        /\ 0 <= result.maxDrawdown.n
        /\ result.maxDrawdown.n <= result.maxDrawdown.d

----------------------------------------------------------------------------
(* Claims about the strategies' execute *)

\* the runs that returned a PredictionResult
Returned == { r \in 1..Len(runs) : runs[r].kind = "ok" }

\* C6: whenever execute returns normally, for each of the three strategies,
\* the confidence of the result lies within [0, 0.95], whatever bonuses,
\* penalties and multipliers were applied before.
C6_ConfidenceRange ==
    \A r \in Returned :
        runs[r].confidence >= 0 /\ runs[r].confidence <= (95 * ConfUnit) \div 100

\* C6 witness: the composite strategy returned the upper limit itself, from
\* two agreeing sub-strategies whose blend the multipliers carry past 0.95.
C6_Witness ==
    /\ strategy = "ml-enhanced"
    /\ Returned # {}
    /\ \E r \in Returned :
          /\ runs[r].confidence = (95 * ConfUnit) \div 100
          /\ runs[r].direction # "neutral"

\* C8: two execute calls on the same MarketData return the same direction,
\* confidence, target and stop, whatever the wall clock shows at each call.
C8_SameResultOnSameData ==
    \A r1, r2 \in Returned :
        /\ runs[r1].direction = runs[r2].direction
        /\ runs[r1].confidence = runs[r2].confidence
        /\ runs[r1].targetPrice = runs[r2].targetPrice
        /\ runs[r1].stopLoss = runs[r2].stopLoss

\* C9: on a candle sequence of at most ShortLen candles the trend-following
\* execute fails instead of returning a PredictionResult.
C9_ShortInputFails ==
    (/\ strategy = "trend-following"
     /\ data.kind = "candles"
     /\ Len(data.candles) <= ShortLen)
        => Returned = {}

\* C10: on FlatLen flat candles with sentiment 0 the trend-following execute
\* returns direction 'neutral' with a confidence of about 0.5.
C10_FlatIsNeutral ==
    (/\ strategy = "trend-following"
     /\ data = [kind |-> "candles", candles |-> Series(FlatLen, 0, 0),
                marketSentiment |-> 0])
        => \A r \in 1..Len(runs) :
              /\ runs[r].kind = "ok"
              /\ runs[r].direction = "neutral"
              /\ runs[r].confidence >= (45 * ConfUnit) \div 100
              /\ runs[r].confidence <= (55 * ConfUnit) \div 100

----------------------------------------------------------------------------
(* Claims about the statistics of backtest() *)

RECURSIVE PnlOfSign(_, _, _)
\* the sum of the profitLoss of the first k trades whose sign is `sign`
PnlOfSign(ts, k, sign) ==
    IF k = 0 THEN 0
    ELSE PnlOfSign(ts, k - 1, sign)
         + (IF ts[k].profitLoss * sign > 0 THEN ts[k].profitLoss ELSE 0)

\* C11: in the result of backtest, totalTrades is the length of the trade
\* list; winRate is the share of the trades with a profit, 0 without trades,
\* within [0, 1]; profitFactor is totalGain / totalLoss when totalLoss > 0,
\* infinite exactly when totalLoss = 0 < totalGain, 0 when both are 0, and
\* never negative.
C11_Statistics ==
    result # Null =>
        LET ts == result.trades
            wins == Cardinality({k \in 1..Len(ts) : ts[k].profitLoss > 0})
            totalGain == PnlOfSign(ts, Len(ts), 1)
            totalLoss == -PnlOfSign(ts, Len(ts), -1)
            wr == result.winRate
            pf == result.profitFactor
        IN /\ ts = trades
           /\ result.totalTrades = Len(ts)
           /\ wr.k = "fin"
           /\ wr.n >= 0 /\ wr.n <= wr.d
           /\ IF Len(ts) = 0 THEN wr.n = 0 ELSE wr.n * Len(ts) = wins * wr.d
           /\ pf.k \in {"fin", "inf"}
           /\ pf.k = "inf" <=> (totalLoss = 0 /\ totalGain > 0)
           /\ pf.k = "inf" => pf.s > 0
           /\ pf.k = "fin" => pf.n >= 0
           /\ totalLoss > 0 => pf.n * totalLoss = totalGain * pf.d
           /\ (totalLoss = 0 /\ totalGain = 0) => (pf.k = "fin" /\ pf.n = 0)

\* C11 witness: a result over a winning and a losing trade
C11_Witness ==
    /\ result # Null
    /\ \E k \in 1..Len(result.trades) : result.trades[k].profitLoss > 0
    /\ \E k \in 1..Len(result.trades) : result.trades[k].profitLoss < 0

\* a candle with consistent, non-negative values
IsValidCandle(c) ==
    /\ c.low <= c.high
    /\ c.low <= c.open /\ c.open <= c.high
    /\ c.low <= c.close /\ c.close <= c.high
    /\ c.low >= 0 /\ c.volume >= 0

\* C12: on an input that holds an invalid candle, backtest fails: it returns
\* no result and no trade is produced from the data.
C12_InvalidCandleRejected ==
    (\E k \in 1..Len(candles) : ~IsValidCandle(candles[k]))
        => (result = Null /\ trades = <<>> /\ pc # "done")

\* the input of the run is a set of indicator values with these bands
HasBands == data.kind = "snapshot" /\ data.reversion.bb # Undef

\* C13: when the Bollinger bands are degenerate (upper = lower), the
\* mean-reversion execute does not throw: a PredictionResult is returned.
C13_DegenerateAbsorbed ==
    (/\ strategy = "mean-reversion"
     /\ HasBands
     /\ data.reversion.bb.upper = data.reversion.bb.lower
     /\ data.reversion.stoch # Undef)
        => \A r \in 1..Len(runs) : runs[r].kind = "ok"

\* C14: the %B of the mean-reversion strategy lies within [0, 1] when the
\* price lies within bands of positive width, and execute throws when the
\* bands have no width.
C14_PercentB ==
    (strategy = "mean-reversion" /\ HasBands) =>
        LET bb == data.reversion.bb
            price == data.reversion.currentPrice
        IN \A r \in 1..Len(runs) :
              /\ (bb.upper = bb.lower) => runs[r].kind = "throw"
              /\ (/\ runs[r].kind = "ok"
                  /\ bb.upper > bb.lower
                  /\ bb.lower <= price /\ price <= bb.upper)
                    => /\ runs[r].percentB.k = "fin"
                       /\ runs[r].percentB.n >= 0
                       /\ runs[r].percentB.n <= runs[r].percentB.d

\* C14 witness: a result for a price strictly inside the bands and below
\* the middle one
C14_Witness ==
    /\ strategy = "mean-reversion"
    /\ HasBands
    /\ data.reversion.bb.lower < data.reversion.currentPrice
    /\ data.reversion.currentPrice < data.reversion.bb.middle
    /\ Len(runs) >= 1
    /\ runs[1].kind = "ok"
    /\ runs[1].percentB.n > 0

\* C15 as stated: after any call, with any strategy, the caller's candles
\* have the same length, the same order and the same field values as before.
C15_NeverMutated ==
    memory # Null => CandlesOf(memory, "candles") = memory.original

\* C15 as amended: the caller's array keeps its length and the order of its
\* candle objects whatever the strategy does to the prefix it is given, and
\* the field values are unchanged as long as no strategy assigned a field of
\* a candle it was given (none of the repository's strategies does).
C15_ArrayIsolated ==
    memory # Null =>
        /\ memory.arrays["candles"] = [k \in 1..Len(memory.original) |-> k]
        /\ ~memory.written => CandlesOf(memory, "candles") = memory.original

\* C15 witness: a strategy dropped the last element of the prefix it was
\* given, and the caller's array still holds all its candles
C15_Witness ==
    /\ memory # Null
    /\ memory.lastWrite = "pop"
    /\ Len(memory.arrays["testCandles"]) < memory.index
    /\ CandlesOf(memory, "candles") = memory.original

\* C16: target and stop are rounded to a precision that follows the price:
\* for a price below 0.01 and a positive ATR, the target and the stop of a
\* long or short result of trend-following stay above 0 and distinct.
C16_RoundingFollowsPrice ==
    (/\ strategy = "trend-following"
     /\ data.kind = "snapshot"
     /\ data.trend.currentPrice < PriceUnit \div 100
     /\ data.trend.atr > 0)
        => \A r \in Returned :
              runs[r].direction # "neutral" =>
                  /\ runs[r].targetPrice > 0
                  /\ runs[r].stopLoss > 0
                  /\ runs[r].targetPrice # runs[r].stopLoss

\* the true range is the same on every bar of the candles
HasConstantTrueRange(cs) ==
    \A k \in 2..Len(cs) : TrueRange(cs, k) = TrueRange(cs, 2)

C18_RejectOrProcessAll ==
    /\ [](Len(candles) <= StartIndex =>
            /\ pc \in {"start", "error"}
            /\ ~call.invoked
            /\ trades = <<>>
            /\ result = Null)
    /\ [](Len(candles) > StartIndex =>
            /\ pc # "error"
            /\ pc = "done" => (i = Len(candles) /\ result # Null)
            /\ pc # "done" => result = Null)
    /\ [][ /\ pc = "start" => (pc' = "error" \/ (pc' = "loop" /\ i' = StartIndex))
           /\ (pc = "loop" /\ pc' = "loop") =>
                 (i < Len(candles) /\ i' = i + 1 /\ i \in lookedAt')
           /\ (pc = "loop" /\ pc' = "done") => (i = Len(candles) /\ i' = i)
           /\ pc \in {"done", "error"} => pc' = pc
         ]_vars
    /\ <>(pc = IF Len(candles) <= StartIndex THEN "error" ELSE "done")

\* C18 witness: a result returned after the last index was handled
C18_Witness ==
    /\ pc = "done"
    /\ Len(candles) > StartIndex + 1
    /\ i = Len(candles)
    /\ result # Null

\* the input of the run is the series of RisingLen candles that rises by
\* 0.5% per bar, with sentiment 0
IsRisingInput ==
    /\ strategy = "trend-following"
    /\ data = [kind |-> "candles", candles |-> RisingSeries(RisingLen),
               marketSentiment |-> 0]

\* C19: on RisingLen candles whose close rises by 0.5% per bar, with a
\* positive volume and sentiment 0, trend-following returns direction
\* 'long', a confidence above 0.7 and a target above the current price.
C19_RisingIsLong ==
    IsRisingInput =>
        \A r \in 1..Len(runs) :
            /\ runs[r].kind = "ok"
            /\ runs[r].direction = "long"
            /\ runs[r].confidence > (7 * ConfUnit) \div 10
            /\ runs[r].targetPrice > runs[r].currentPrice

\* C19 witness: execute returned on the rising series
C19_Witness ==
    /\ IsRisingInput
    /\ Len(runs) >= 1
    /\ runs[1].kind = "ok"
    /\ runs[1].direction = "long"
    /\ runs[1].currentPrice > 300 * PriceUnit

\* indicator values and a sentiment for which every bullish signal fires
EverySignalFires ==
    TrendSnapshot(TRUE, TRUE, TRUE, TRUE, Macd(500, 200), Fin(65, 1),
                  [adx |-> Fin(35, 1), plusDI |-> Fin(30, 1), minusDI |-> Fin(10, 1)],
                  PriceUnit)

\* the count obtained when every bullish signal fires
ReachableMaxCount == BullishCount(EverySignalFires, 1000)

\* C20: trend-following returns 'long' exactly when the bullish count is at
\* least 60% of the count obtained when every signal fires, 'short' exactly
\* when it is at most 35% of it, and 'neutral' otherwise.
C20_ThresholdsOfReachableMax ==
    (strategy = "trend-following" /\ data.kind = "snapshot") =>
        LET count == BullishCount(data.trend, data.marketSentiment)
        IN \A r \in Returned :
              /\ runs[r].direction = "long" <=> count * 100 >= ReachableMaxCount * 60
              /\ runs[r].direction = "short" <=> count * 100 <= ReachableMaxCount * 35
              /\ runs[r].direction \in {"long", "short", "neutral"}

\* C21: meanReversionStrategy returns 'long' only when the oversold condition
\* (%B < 0.15 or RSI < 30 or StochRSI-K < 20), K above D and the
\* rate-of-change filter all three hold, and 'short' only when overbought,
\* K below D and the rate-of-change filter all three hold; if any one of the
\* three is false the direction is 'neutral'.
C21_AllThreeRequired ==
    (strategy = "mean-reversion" /\ data.kind = "snapshot"
     /\ ~ReversionThrows(data.reversion)) =>
        LET rev == data.reversion
            allLong == /\ IsOversold(rev)
                       /\ JsGt(rev.stoch.k, rev.stoch.d)
                       /\ JsGt(rev.latestROC, Fin(-5, 10))
            allShort == /\ IsOverbought(rev)
                        /\ JsGt(rev.stoch.d, rev.stoch.k)
                        /\ JsGt(Fin(5, 10), rev.latestROC)
        IN \A r \in Returned :
              /\ runs[r].direction = "long" => allLong
              /\ runs[r].direction = "short" => allShort

\* C22: for a non-neutral mean-reversion signal the target is the middle
\* band and the stop starts at currentPrice -/+ 1.5 x ATR; when a support
\* (long) or resistance (short) level is near and the level-based stop is
\* closer to the current price than the ATR stop, the returned stop is the
\* level-based one, so the stop is never farther from the current price than
\* the 1.5 x ATR stop.
C22_StopTightened ==
    (strategy = "mean-reversion" /\ data.kind = "snapshot"
     /\ ~ReversionThrows(data.reversion)) =>
        LET rev == data.reversion
            price == rev.currentPrice
            atrStop == (rev.atr * 3) \div 2
            support == SeqMax(rev.support, price)
            resistance == SeqMin(rev.resistance, price)
            belowSupport == (support * 99) \div 100
            aboveResistance == (resistance * 101) \div 100
        IN \A r \in Returned :
              /\ runs[r].direction # "neutral" =>
                    runs[r].targetPrice = ToFixed2(rev.bb.middle)
              /\ runs[r].direction = "long" =>
                    /\ runs[r].stopLoss >= ToFixed2(price - atrStop)
                    /\ (IsNear(rev.support, price) /\ support > 0
                        /\ belowSupport > price - atrStop) =>
                            runs[r].stopLoss = ToFixed2(belowSupport)
              /\ runs[r].direction = "short" =>
                    /\ runs[r].stopLoss <= ToFixed2(price + atrStop)
                    /\ (IsNear(rev.resistance, price) /\ resistance < PosInfinity
                        /\ aboveResistance < price + atrStop) =>
                            runs[r].stopLoss = ToFixed2(aboveResistance)

----------------------------------------------------------------------------
(* Claims about the decisions of the strategies *)

\* the instant at which a run read the wall clock
InstantOf(run) ==
    CHOOSE t \in { Instants[k] : k \in 1..Len(Instants) } : t.now = run.timestamp

----------------------------------------------------------------------------
(* Claims about the trades of backtest() *)

\* C24: every Trade appended by backtest has profitLoss = exit.price -
\* entry.price for a long and entry.price - exit.price for a short, and
\* profitLossPercent = profitLoss / entry.price * 100; exit.price is the
\* position's targetPrice for reason 'target', its stopLoss for 'stop' and
\* the exit candle's close for 'signal'; entry.price and entry.timestamp are
\* those of the candle on which the position was opened, exit.timestamp that
\* of the candle on which it was closed.
C24_TradeRecord ==
    [][/\ (activePosition' # Null /\ activePosition' # activePosition) =>
              /\ activePosition'.entry.index = i
              /\ activePosition'.entry.price = candles[i + 1].close
              /\ activePosition'.entry.timestamp = candles[i + 1].time
       /\ trades' # trades =>
              LET t == trades'[Len(trades')]
                  pos == activePosition
                  opened == candles[pos.entry.index + 1]
                  closed == candles[i + 1]
              IN /\ trades' = Append(trades, t)
                 /\ t.entry.price = opened.close
                 /\ t.entry.timestamp = opened.time
                 /\ t.entry.direction = pos.entry.direction
                 /\ t.exit.timestamp = closed.time
                 /\ t.exit.reason \in {"target", "stop", "signal"}
                 /\ t.exit.reason = "target" => t.exit.price = pos.targetPrice
                 /\ t.exit.reason = "stop" => t.exit.price = pos.stopLoss
                 /\ t.exit.reason = "signal" => t.exit.price = closed.close
                 /\ t.entry.direction = "long" =>
                        t.profitLoss = t.exit.price - t.entry.price
                 /\ t.entry.direction = "short" =>
                        t.profitLoss = t.entry.price - t.exit.price
                 /\ t.profitLossPercent = JsDiv(t.profitLoss * 100, t.entry.price)
      ]_vars

\* C24 witness: a run recorded a short that the timeout closed, at the close
\* of the exit candle and with a loss.
C24_Witness ==
    \E k \in 1..Len(trades) :
        /\ trades[k].exit.reason = "signal"
        /\ trades[k].entry.direction = "short"
        /\ trades[k].profitLoss < 0
        /\ trades[k].exit.price = candles[IndexOfTime(trades[k].exit.timestamp) + 1].close

\* C25: after a position is closed by target or stop on candle i, the
\* strategy is not invoked and no new position is opened on candle i (the
\* earliest re-entry is candle i+1); after a position is closed by the
\* timeout on candle i, the strategy is invoked on the prefix ending at i in
\* the same iteration, and a position opened then is opened on candle i at
\* the close price at which the old one was closed.
C25_ReentryAfterExit ==
    [][trades' # trades =>
          LET t == trades'[Len(trades')]
          IN /\ t.exit.reason \in {"target", "stop"} =>
                    /\ ~call'.invoked
                    /\ activePosition' = Null
             /\ t.exit.reason = "signal" =>
                    /\ call'.invoked
                    /\ call'.index = i
                    /\ call'.data = SubSeq(candles, 1, i + 1)
                    /\ activePosition' # Null =>
                          /\ activePosition'.entry.index = i
                          /\ activePosition'.entry.timestamp = t.exit.timestamp
                          /\ activePosition'.entry.price = t.exit.price
      ]_vars

\* C25 witness: the timeout closed a position and the same iteration opened
\* a new one on the same candle, at the same price.
C25_Witness ==
    /\ trades # <<>>
    /\ activePosition # Null
    /\ trades[Len(trades)].exit.reason = "signal"
    /\ activePosition.entry.timestamp = trades[Len(trades)].exit.timestamp
    /\ activePosition.entry.price = trades[Len(trades)].exit.price
    /\ call.invoked

\* C26: for every Trade recorded by backtest the exit candle index is
\* strictly greater than the entry candle index and at most entry index +
\* 10; trades appear in the list in order of exit, and each trade's entry
\* candle index is greater than or equal to the previous trade's exit candle
\* index, so recorded trades never overlap in time.
C26_TradesInOrder ==
    \A k \in 1..Len(trades) :
        LET entered == IndexOfTime(trades[k].entry.timestamp)
            exited == IndexOfTime(trades[k].exit.timestamp)
        IN /\ entered < exited
           /\ exited <= entered + 10
           /\ k > 1 =>
                 LET before == IndexOfTime(trades[k - 1].exit.timestamp)
                 IN before < exited /\ before <= entered

\* C26 witness: a trade held for the full 10 candles, followed by a trade
\* that was entered on the very candle the first one was closed on.
C26_Witness ==
    \E k \in 2..Len(trades) :
        /\ IndexOfTime(trades[k - 1].exit.timestamp)
             = IndexOfTime(trades[k - 1].entry.timestamp) + 10
        /\ trades[k].entry.timestamp = trades[k - 1].exit.timestamp

\* C27: a position that is still open after the last candle has been
\* processed is discarded: backtest appends no Trade for it, and it
\* contributes nothing to totalTrades, winRate, profitFactor or maxDrawdown,
\* so it leaves no trace in the BacktestResult.
C27_OpenPositionDiscarded ==
    (pc = "done" /\ activePosition # Null) =>
        /\ result.trades = trades
        /\ result.totalTrades = Len(trades)
        /\ \A k \in 1..Len(result.trades) :
               result.trades[k].entry.timestamp # activePosition.entry.timestamp
        /\ result.winRate = WinRate(trades)
        /\ result.profitFactor = ProfitFactor(trades)
        /\ result.maxDrawdown = MaxDrawdown(trades)

\* C27 witness: backtest returned with a position still open that was
\* entered on one of the last candles, after an earlier trade was closed.
C27_Witness ==
    /\ pc = "done"
    /\ activePosition # Null
    /\ activePosition.entry.index >= Len(candles) - 2
    /\ trades # <<>>
    /\ result.totalTrades = Len(trades)

\* C28: with any of the three shipped strategies every position backtest
\* opens (a result that is not neutral with a confidence above 0.65, entered
\* at the last close of the prefix) has its target on the profitable side
\* and its stop on the losing side of the entry price: for a long stopLoss <=
\* entry close <= targetPrice, for a short the reverse; so a 'target' exit
\* never loses and a 'stop' exit never wins.
C28_TargetAndStopSides ==
    \A r \in Returned :
        IsEntrySignal(runs[r]) =>
            /\ runs[r].direction = "long" =>
                  /\ runs[r].stopLoss <= runs[r].currentPrice
                  /\ runs[r].currentPrice <= runs[r].targetPrice
            /\ runs[r].direction = "short" =>
                  /\ runs[r].targetPrice <= runs[r].currentPrice
                  /\ runs[r].currentPrice <= runs[r].stopLoss

\* C29: the direction returned by mlEnhancedStrategy always equals the
\* direction returned by trendFollowingStrategy or by meanReversionStrategy
\* on the same input; when both return the same non-neutral direction the
\* composite returns that direction, and when both return 'neutral' the
\* composite returns 'neutral'.
C29_DirectionOfASubStrategy ==
    strategy = "ml-enhanced" =>
        \A r \in Returned :
            LET tp == TrendExecute(data, runs[r].timestamp)
                rp == ReversionExecute(data, runs[r].timestamp)
            IN /\ tp.kind = "ok" /\ rp.kind = "ok"
               /\ runs[r].direction \in {tp.direction, rp.direction}
               /\ tp.direction = rp.direction => runs[r].direction = tp.direction

\* C29 witness: the composite returned 'neutral' on an input on which both
\* sub-strategies are neutral.
C29_Witness ==
    /\ strategy = "ml-enhanced"
    /\ \E r \in Returned :
          LET tp == TrendExecute(data, runs[r].timestamp)
              rp == ReversionExecute(data, runs[r].timestamp)
          IN /\ tp.direction = "neutral"
             /\ rp.direction = "neutral"
             /\ runs[r].direction = "neutral"

\* no bullish signal of prediction.ts:186-205 fires on these indicator values
NoSignalFires(ind) ==
    /\ ~ind.isUptrend
    /\ ~ind.isAboveEMA20 /\ ~ind.isAboveEMA50 /\ ~ind.isAboveEMA100
    /\ ~ind.isAboveEMA200
    /\ ~ind.isPriceRising /\ ~ind.isFastEMARising
    /\ ~MacdHistogramPositive(ind.latestMACD)
    /\ ~MacdAboveSignal(ind.latestMACD)
    /\ ~(JsGt(ind.latestRSI, Fin(50, 1)) /\ JsGt(Fin(70, 1), ind.latestRSI))
    /\ ~JsGt(ind.plusDI, ind.minusDI)
    /\ ~JsGt(ind.adxValue, Fin(25, 1))
    /\ ~ind.isOBVRising

====
